---- MODULE Spec2Model ----
(***************************************************************************)
(* Model of MovieChatBot (src/src/chatbot.py): the interactive chat loop,  *)
(* its retrieval rounds (answer call, query-generation call, execution of  *)
(* the generated Cypher queries) and the conversation history.             *)
(*                                                                         *)
(* A Python str is a sequence of characters.  The alphabet is small: the   *)
(* punctuation ast.literal_eval and str(list) need, two letters, a digit,  *)
(* a blank, and a few atoms that stand for a fixed longer text (the        *)
(* NO_CONTEXT marker, the two annotation prefixes, the printed notices).   *)
(***************************************************************************)
EXTENDS Integers, Sequences, FiniteSets, TLC

VARIABLES
    chat_history,      \* self._chat_history: sequence of Turn records
    rag_question,      \* self._rag_question
    question,          \* self._question
    answer,            \* self._answer
    context,           \* self._context: a reference to a list object in heap
    heap,              \* the list objects self._context may refer to
    previous_queries,  \* self._previous_queries (annotated failed queries)
    used_queries,      \* self._used_queries (queries that returned context)
    pc,                \* position of chat(): input/answer/generate/execute/exited/crashed
    batch,             \* cypher_queries_list of the current round
    idx,               \* number of elements of batch the for loop has consumed
    stdout,            \* lines printed since the last line was read from the user
    log,               \* history variable: graph queries executed for the current question
    roundStart,        \* history variable: Len(log) when the current round began
    firstAnswer,       \* history variable: first LLM answer of the current question
    answerCalls,       \* history variable: answer calls of the current question (saturating)
    genCalls,          \* history variable: generation calls of the current question (saturating)
    genText,           \* history variable: the text the last generation call returned
    genPrompt,         \* history variable: the prompt of the last generation call, if any
    completed,         \* history variable: questions completed since construction or restart()
    dropped,           \* history variable: exchanges the last restart() removed, while no
                       \* second question has been asked after it; otherwise -1
    db_connection,     \* the keys of the db_connection argument of the constructor
    graphDB,           \* self._graphDB: "none" until Neo4jGraph(...) has been constructed
    promptHistory,     \* history variable: the chat_history value given to the last answer
                       \* prompt of the current question, if any
    rounds             \* history variable: answers of the current question that held the
                       \* marker, that is, retrieval rounds begun (saturating)

vars == <<chat_history, rag_question, question, answer, context, heap,
          previous_queries, used_queries, pc, batch, idx, stdout, log,
          roundStart, firstAnswer, answerCalls, genCalls, genText, genPrompt,
          completed, dropped, db_connection, graphDB, promptHistory, rounds>>

----------------------------------------------------------------------------
(* Bounds of the model *)

\* most graph queries executed while one question is resolved
MaxQueries == 2
\* most completed exchanges the history holds before the user restarts or leaves
MaxExchanges == 2
\* the call counters count up to this value and then stay
MaxCalls == 2

----------------------------------------------------------------------------
(* Texts *)

NO_CONTEXT == "NO_CONTEXT"
InvalidPrefix == <<"Invalid syntax of this query: ">>
NoDataPrefix == <<"No data generated for this query: ">>
SyntaxNotice == <<"System: System error, cannot provide additional data\n">>
Banner == <<"Chatbot ready! Type 'exit' to quit. Type 'restart' to restart whole conversation.\n">>

Whitespace == {" "}
Letters == {"m", "r"}
Digits == {"7"}

Min(a, b) == IF a < b THEN a ELSE b

\* s[from..to], empty when from > to
Slice(s, from, to) == [i \in 1..(to - from + 1) |-> s[from + i - 1]]

\* str.strip(): leading and trailing whitespace removed
Strip(s) ==
    LET keep == {i \in 1..Len(s) : s[i] \notin Whitespace}
    IN  IF keep = {} THEN <<>>
        ELSE LET lo == CHOOSE i \in keep : \A j \in keep : i <= j
                 hi == CHOOSE i \in keep : \A j \in keep : j <= i
             IN  Slice(s, lo, hi)

\* "NO_CONTEXT" in s
HasMarker(s) == \E i \in 1..Len(s) : s[i] = NO_CONTEXT

\* s.split("NO_CONTEXT")[-1]: the text after the last occurrence of the marker
AfterLastMarker(s) ==
    LET at == {i \in 1..Len(s) : s[i] = NO_CONTEXT}
    IN  IF at = {} THEN s
        ELSE LET last == CHOOSE i \in at : \A j \in at : j <= i
             IN  Slice(s, last + 1, Len(s))

\* str.lower() over the words the user types
LowerChar(c) ==
    CASE c = "EXIT" -> "exit"
      [] c = "Quit" -> "quit"
      [] c = "Restart" -> "restart"
      [] OTHER -> c

Lower(s) == [i \in 1..Len(s) |-> LowerChar(s[i])]

StartsWith(s, p) == Len(s) >= Len(p) /\ Slice(s, 1, Len(p)) = p

----------------------------------------------------------------------------
(* ast.literal_eval over the alphabet: the Python expressions made of names, *)
(* numbers, string literals, list displays, tuples and subscripts.          *)

WordChars == Letters \cup Digits \cup {NO_CONTEXT}

RECURSIVE Tokens(_, _)
\* the Python tokens of s from position i on; "bad" is a token no expression holds
Tokens(s, i) ==
    IF i > Len(s) THEN <<>>
    ELSE IF s[i] \in Whitespace THEN Tokens(s, i + 1)
    ELSE IF s[i] = "[" THEN <<[k |-> "lb", v |-> <<>>]>> \o Tokens(s, i + 1)
    ELSE IF s[i] = "]" THEN <<[k |-> "rb", v |-> <<>>]>> \o Tokens(s, i + 1)
    ELSE IF s[i] = "," THEN <<[k |-> "comma", v |-> <<>>]>> \o Tokens(s, i + 1)
    ELSE IF s[i] = "'" THEN
        LET close == {j \in (i + 1)..Len(s) : s[j] = "'"}
        IN  IF close = {} THEN <<[k |-> "bad", v |-> <<>>]>>
            ELSE LET j == CHOOSE x \in close : \A y \in close : x <= y
                 IN  <<[k |-> "str", v |-> Slice(s, i + 1, j - 1)]>> \o Tokens(s, j + 1)
    ELSE IF s[i] \in WordChars THEN
        LET stop == {j \in i..Len(s) : s[j] \notin WordChars}
            e == IF stop = {} THEN Len(s)
                 ELSE (CHOOSE x \in stop : \A y \in stop : x <= y) - 1
            w == Slice(s, i, e)
            kind == IF \A n \in 1..Len(w) : w[n] \in Digits THEN "num"
                    ELSE IF w[1] \notin Digits THEN "name"
                    ELSE "bad"
        IN  <<[k |-> kind, v |-> w]>> \o Tokens(s, e + 1)
    ELSE <<[k |-> "bad", v |-> <<>>]>> \o Tokens(s, i + 1)

RECURSIVE Concat(_)
Concat(ss) == IF ss = <<>> THEN <<>> ELSE Head(ss) \o Concat(Tail(ss))

\* results of the expression parser: ok, the position after what was parsed,
\* lit (the expression is a literal: no name, no subscript), and its value
NoValue == [t |-> "none", v |-> <<>>]
ParseFailed == [ok |-> FALSE, pos |-> 0, lit |-> FALSE, val |-> NoValue]
ItemsFailed == [ok |-> FALSE, pos |-> 0, lit |-> FALSE, vals |-> <<>>, trailing |-> FALSE]

\* the last token of the run of adjacent string literals that starts at i
RECURSIVE StrRunEnd(_, _)
StrRunEnd(t, i) ==
    IF i + 1 <= Len(t) /\ t[i + 1].k = "str" THEN StrRunEnd(t, i + 1) ELSE i

RECURSIVE ParseAtom(_, _)
RECURSIVE ParseTrailers(_, _)
RECURSIVE ParseItems(_, _)

\* expression:  atom ( "[" items "]" )*
ParseExpr(t, i) == ParseTrailers(t, ParseAtom(t, i))

\* atom:  name | number | string+ | "[" [items] "]"
ParseAtom(t, i) ==
    IF i > Len(t) THEN ParseFailed
    ELSE IF t[i].k = "name"
        THEN [ok |-> TRUE, pos |-> i + 1, lit |-> FALSE, val |-> NoValue]
    ELSE IF t[i].k = "num"
        THEN [ok |-> TRUE, pos |-> i + 1, lit |-> TRUE, val |-> [t |-> "int", v |-> t[i].v]]
    ELSE IF t[i].k = "str"
        THEN LET e == StrRunEnd(t, i)
             IN  [ok |-> TRUE, pos |-> e + 1, lit |-> TRUE,
                  val |-> [t |-> "str", v |-> Concat([p \in 1..(e - i + 1) |-> t[i + p - 1].v])]]
    ELSE IF t[i].k = "lb"
        THEN LET it == ParseItems(t, i + 1)
             IN  IF it.ok /\ it.pos <= Len(t) /\ t[it.pos].k = "rb"
                 THEN [ok |-> TRUE, pos |-> it.pos + 1, lit |-> it.lit,
                       val |-> [t |-> "list", v |-> it.vals]]
                 ELSE ParseFailed
    ELSE ParseFailed

\* subscripts after the expression r; a subscripted expression is no literal
ParseTrailers(t, r) ==
    IF ~r.ok \/ r.pos > Len(t) THEN r
    ELSE IF t[r.pos].k # "lb" THEN r
    ELSE LET it == ParseItems(t, r.pos + 1)
         IN  IF it.ok /\ Len(it.vals) >= 1 /\ it.pos <= Len(t) /\ t[it.pos].k = "rb"
             THEN ParseTrailers(t, [ok |-> TRUE, pos |-> it.pos + 1, lit |-> FALSE,
                                    val |-> NoValue])
             ELSE ParseFailed

\* items:  [ expression ( "," expression )* [","] ], up to a "]" or the end
ParseItems(t, i) ==
    IF i > Len(t)
        THEN [ok |-> TRUE, pos |-> i, lit |-> TRUE, vals |-> <<>>, trailing |-> FALSE]
    ELSE IF t[i].k = "rb"
        THEN [ok |-> TRUE, pos |-> i, lit |-> TRUE, vals |-> <<>>, trailing |-> FALSE]
    ELSE LET e == ParseExpr(t, i)
         IN  IF ~e.ok THEN ItemsFailed
             ELSE IF e.pos <= Len(t) /\ t[e.pos].k = "comma"
                 THEN LET rest == ParseItems(t, e.pos + 1)
                      IN  IF ~rest.ok THEN ItemsFailed
                          ELSE [ok |-> TRUE, pos |-> rest.pos, lit |-> e.lit /\ rest.lit,
                                vals |-> <<e.val>> \o rest.vals,
                                trailing |-> Len(rest.vals) = 0 \/ rest.trailing]
             ELSE [ok |-> TRUE, pos |-> e.pos, lit |-> e.lit, vals |-> <<e.val>>,
                   trailing |-> FALSE]

\* ast.literal_eval(s): a value [t |-> "list" | "tuple" | "str" | "int", v |-> ...]
\* or the exception it raises, [t |-> "SyntaxError" | "ValueError"]: SyntaxError
\* when s is no Python expression, ValueError when it is one but no literal
literal_eval(s) ==
    LET t == Tokens(s, 1)
        it == ParseItems(t, 1)
    IN  IF \E p \in 1..Len(t) : t[p].k = "bad"
            THEN [t |-> "SyntaxError", v |-> <<>>]
        ELSE IF ~it.ok THEN [t |-> "SyntaxError", v |-> <<>>]
        ELSE IF it.pos # Len(t) + 1 \/ Len(it.vals) = 0
            THEN [t |-> "SyntaxError", v |-> <<>>]
        ELSE IF ~it.lit THEN [t |-> "ValueError", v |-> <<>>]
        ELSE IF Len(it.vals) = 1 /\ ~it.trailing THEN it.vals[1]
        ELSE [t |-> "tuple", v |-> it.vals]

----------------------------------------------------------------------------
(* The parts of chat() *)

\* chatbot.py 155-158: the value cypher_queries_list holds after the try block,
\* or the exception that leaves it
ParseQueryList(text) ==
    LET r == literal_eval(text)
    IN  IF r.t = "SyntaxError" THEN [t |-> "list", v |-> <<[t |-> "str", v |-> text]>>]
        ELSE r

\* chatbot.py 161: what enumerate(cypher_queries_list) iterates over; a list or
\* tuple gives its elements, a str its characters, an int is not iterable
Candidates(parsed) ==
    IF parsed.t \in {"list", "tuple"} THEN [ok |-> TRUE, items |-> [i \in 1..Len(parsed.v) |-> parsed.v[i].v]]
    ELSE IF parsed.t = "str" THEN [ok |-> TRUE, items |-> [i \in 1..Len(parsed.v) |-> <<parsed.v[i]>>]]
    ELSE [ok |-> FALSE, items |-> <<>>]

\* every element of a parsed list is a str (the model executes no other element)
AllStrings(parsed) ==
    parsed.t \in {"list", "tuple"} => \A i \in 1..Len(parsed.v) : parsed.v[i].t = "str"

RECURSIVE JoinRows(_)
JoinRows(rows) ==
    IF rows = <<>> THEN <<>>
    ELSE IF Len(rows) = 1 THEN <<rows[1]>>
    ELSE <<rows[1], ",", " ">> \o JoinRows(Tail(rows))

\* str(list of row dictionaries)
Serialise(rows) == <<"[">> \o JoinRows(rows) \o <<"]">>

\* QueryOutcome with the two annotations exchanged
QueryOutcome_SwappedPrefixes(cypher_query, res) ==
    IF res.raised
    THEN [cypher_query |-> NoDataPrefix \o cypher_query, none |-> TRUE,
          context |-> <<>>, printed |-> <<SyntaxNotice>>]
    ELSE LET c == Serialise(res.rows)
         IN  IF Strip(c) = <<"[", "]">>
             THEN [cypher_query |-> InvalidPrefix \o cypher_query, none |-> TRUE,
                   context |-> <<>>, printed |-> <<>>]
             ELSE [cypher_query |-> cypher_query, none |-> FALSE,
                   context |-> c, printed |-> <<>>]

\* QueryOutcome whose except clause does not annotate the query
QueryOutcome_UnannotatedSyntaxError(cypher_query, res) ==
    IF res.raised
    THEN [cypher_query |-> cypher_query, none |-> TRUE,
          context |-> <<>>, printed |-> <<SyntaxNotice>>]
    ELSE LET c == Serialise(res.rows)
         IN  IF Strip(c) = <<"[", "]">>
             THEN [cypher_query |-> NoDataPrefix \o cypher_query, none |-> TRUE,
                   context |-> <<>>, printed |-> <<>>]
             ELSE [cypher_query |-> cypher_query, none |-> FALSE,
                   context |-> c, printed |-> <<>>]

\* QueryOutcome that prints the notice for an empty result as well
QueryOutcome_NoticeOnEmpty(cypher_query, res) ==
    IF res.raised
    THEN [cypher_query |-> InvalidPrefix \o cypher_query, none |-> TRUE,
          context |-> <<>>, printed |-> <<SyntaxNotice>>]
    ELSE LET c == Serialise(res.rows)
         IN  IF Strip(c) = <<"[", "]">>
             THEN [cypher_query |-> NoDataPrefix \o cypher_query, none |-> TRUE,
                   context |-> <<>>, printed |-> <<SyntaxNotice>>]
             ELSE [cypher_query |-> cypher_query, none |-> FALSE,
                   context |-> c, printed |-> <<>>]

\* QueryOutcome that does not annotate the query of an empty result
QueryOutcome_UnannotatedEmpty(cypher_query, res) ==
    IF res.raised
    THEN [cypher_query |-> InvalidPrefix \o cypher_query, none |-> TRUE,
          context |-> <<>>, printed |-> <<SyntaxNotice>>]
    ELSE LET c == Serialise(res.rows)
         IN  IF Strip(c) = <<"[", "]">>
             THEN [cypher_query |-> cypher_query, none |-> TRUE,
                   context |-> <<>>, printed |-> <<>>]
             ELSE [cypher_query |-> cypher_query, none |-> FALSE,
                   context |-> c, printed |-> <<>>]

\* QueryOutcome without the test for the empty result
QueryOutcome_NoEmptyCheck(cypher_query, res) ==
    IF res.raised
    THEN [cypher_query |-> InvalidPrefix \o cypher_query, none |-> TRUE,
          context |-> <<>>, printed |-> <<SyntaxNotice>>]
    ELSE [cypher_query |-> cypher_query, none |-> FALSE,
          context |-> Serialise(res.rows), printed |-> <<>>]

\* chatbot.py 162-171: one candidate against the graph store.  res is what
\* self._graphDB.query did: raised CypherSyntaxError, or returned rows.
QueryOutcome(cypher_query, res) ==
    IF res.raised
    THEN [cypher_query |-> InvalidPrefix \o cypher_query, none |-> TRUE,
          context |-> <<>>, printed |-> <<SyntaxNotice>>]
    ELSE LET c == Serialise(res.rows)
         IN  IF Strip(c) = <<"[", "]">>
             THEN [cypher_query |-> NoDataPrefix \o cypher_query, none |-> TRUE,
                   context |-> <<>>, printed |-> <<>>]
             ELSE [cypher_query |-> cypher_query, none |-> FALSE,
                   context |-> c, printed |-> <<>>]

\* SaveOutcome that lists every executed query among the failed ones
SaveOutcome_AlwaysFailed(prev, used, ctx, o) ==
    IF o.none
    THEN [previous |-> Append(prev, o.cypher_query), used |-> used, context |-> ctx]
    ELSE [previous |-> Append(prev, o.cypher_query),
          used |-> Append(used, o.cypher_query),
          context |-> Append(ctx, o.context)]

\* chatbot.py 174-178: the outcome o of one candidate is recorded in the lists
SaveOutcome(prev, used, ctx, o) ==
    IF o.none
    THEN [previous |-> Append(prev, o.cypher_query), used |-> used, context |-> ctx]
    ELSE [previous |-> prev,
          used |-> Append(used, o.cypher_query),
          context |-> Append(ctx, o.context)]

\* the for loop taking the candidates from the end of the list
NextCandidate_Reversed(list, i) == list[Len(list) - i]

\* chatbot.py 161: the element the for loop takes after i iterations
NextCandidate(list, i) == list[i + 1]

\* the for loop left as soon as a candidate has failed
AfterCandidate_AbortsOnFailure(o, i, n) ==
    IF o.none \/ i + 1 = n THEN "answer" ELSE "execute"

\* the while loop going from the last candidate straight to the next
\* generation call, without the answer call of lines 181-190
AfterCandidate_SkipsAnswerCall(o, i, n) == IF i + 1 = n THEN "generate" ELSE "execute"

\* chatbot.py 161-178: where chat() is once candidate i + 1 of n is recorded;
\* no outcome o leaves the for loop before the list is exhausted
AfterCandidate(o, i, n) == IF i + 1 = n THEN "answer" ELSE "execute"

\* the loop condition as  self._answer.startswith("NO_CONTEXT")
NeedsContext_OnlyAtStart(a) == Len(a) >= 1 /\ a[1] = NO_CONTEXT

\* the loop condition negated
NeedsContext_Inverted(a) == ~HasMarker(a)

\* chatbot.py 149: the condition of the retrieval loop
NeedsContext(a) == HasMarker(a)

\* the sub-question taken after the first occurrence of the marker
NextRagQuestion_AfterFirstMarker(a) ==
    LET at == {i \in 1..Len(a) : a[i] = NO_CONTEXT}
    IN  IF at = {} THEN Strip(a)
        ELSE LET first == CHOOSE i \in at : \A j \in at : i <= j
             IN  Strip(Slice(a, first + 1, Len(a)))

\* chatbot.py 150-151
NextRagQuestion(a) == Strip(AfterLastMarker(a))

\* save_chat_history with the two appends exchanged
save_chat_history_AssistantFirst(hist, q, ctx, a) ==
    hist \o <<[role |-> "assistant", content |-> a],
              [role |-> "user", content |-> q, context |-> ctx]>>

\* chatbot.py 91-93
save_chat_history(hist, q, ctx, a) ==
    hist \o <<[role |-> "user", content |-> q, context |-> ctx],
              [role |-> "assistant", content |-> a]>>

\* chatbot.py 193
BotLine(a) == <<"Bot: ">> \o a \o <<"\n", "\n">>

----------------------------------------------------------------------------
(* The list objects self._context refers to *)

Refs == 1..(MaxExchanges + 1)

\* the list objects the user Turns of hist hold
HistRefs(hist) == {hist[i].context : i \in {j \in 1..Len(hist) : hist[j].role = "user"}}

\* chatbot.py 139, 184: the history as a prompt renders it, every user Turn
\* with the content of the list object it holds
HistoryValue(h, hist) ==
    [i \in 1..Len(hist) |->
        IF hist[i].role = "user"
        THEN [role |-> "user", content |-> hist[i].content, context |-> h[hist[i].context]]
        ELSE hist[i]]

\* no new list: self._context keeps the object it is bound to
NewList_SameObject(hist) == context

\* a list object nothing refers to: what  []  creates
NewList(hist) == CHOOSE r \in Refs : r \notin HistRefs(hist) /\
                     \A o \in Refs : o \notin HistRefs(hist) => r <= o

\* the heap once the objects neither ctx nor hist refers to are collected
Collect(h, hist, ctx) ==
    [r \in Refs |-> IF r = ctx \/ r \in HistRefs(hist) THEN h[r] ELSE <<>>]

----------------------------------------------------------------------------
(* What the user, the LLM and the graph store may do *)

UserLines == {<<"Who">>, <<"exit">>, <<"Quit">>, <<"Restart">>}

Answers == {
    <<"ok">>,
    <<NO_CONTEXT, " ", "w", " ">>,
    <<"a", NO_CONTEXT, "w", NO_CONTEXT, " ", "v">> }

GenOutputs == {
    <<"m", " ", "r">>,                                  \* a bare query
    <<"[", "'", "m", "'", "]">>,                        \* ['m']
    <<"[", "'", "m", "'", ",", " ", "'", "r", "'", "]">>, \* ['m', 'r']
    <<"[", "'", "m", "'", ",", "'", "m", "'", "]">>,    \* ['m','m']
    <<"[", "]">>,                                       \* []
    <<"'", "m", "r", "'">>,                             \* 'mr'
    <<"7">>,                                            \* a number
    <<"m">>,                                            \* a name
    <<"r", " ", "[", "7", "]">>,                        \* a bare query: r [7]
    NoDataPrefix \o <<"m">> }                           \* a failed entry echoed

\* self._graphDB.query: raises CypherSyntaxError or returns the rows
DbResults == {
    [raised |-> TRUE, rows |-> <<>>],
    [raised |-> FALSE, rows |-> <<>>],
    [raised |-> FALSE, rows |-> <<"{row}">>] }

\* a text that begins with one of the annotations is no Cypher statement: the
\* graph store answers it with the syntax error
DbMayAnswer(cypher_query, res) ==
    (StartsWith(cypher_query, InvalidPrefix) \/ StartsWith(cypher_query, NoDataPrefix))
        => res.raised

----------------------------------------------------------------------------
(* State machine *)

\* chatbot.py 47: the keys the constructor requires of db_connection
RequiredKeys == {"url", "username", "password", "database"}

\* the test of line 47 without the database key
missing_keys_IgnoresDatabase(conn) == {"url", "username", "password"} \ conn

\* chatbot.py 47: the required keys db_connection does not hold
missing_keys(conn) == RequiredKeys \ conn

Init ==
    /\ chat_history = <<>>
    /\ rag_question = <<>>
    /\ question = <<>>
    /\ answer = <<>>
    /\ context = 1
    /\ heap = [r \in Refs |-> <<>>]
    /\ previous_queries = <<>>
    /\ used_queries = <<>>
    /\ pc = "input"
    /\ batch = <<>>
    /\ idx = 0
    /\ stdout = <<Banner>>
    /\ log = <<>>
    /\ roundStart = 0
    /\ firstAnswer = <<>>
    /\ answerCalls = 0
    /\ genCalls = 0
    /\ genText = <<>>
    /\ genPrompt = <<>>
    /\ completed = 0
    /\ dropped = -1
    /\ db_connection = RequiredKeys
    /\ graphDB = "open"
    /\ promptHistory = <<>>
    /\ rounds = 0

NoQuestion ==
    /\ batch' = <<>>
    /\ idx' = 0
    /\ log' = <<>>
    /\ roundStart' = 0
    /\ firstAnswer' = <<>>
    /\ answerCalls' = 0
    /\ genCalls' = 0
    /\ genText' = <<>>
    /\ genPrompt' = <<>>
    /\ promptHistory' = <<>>
    /\ rounds' = 0

\* restart() without the reset of self._chat_history
restart_KeepsHistory ==
    /\ chat_history' = chat_history
    /\ rag_question' = <<>>
    /\ question' = <<>>
    /\ answer' = <<>>
    /\ context' = NewList(chat_history)
    /\ heap' = Collect(heap, chat_history, NewList(chat_history))
    /\ previous_queries' = <<>>
    /\ used_queries' = <<>>

\* restart() without the reset of self._rag_question
restart_KeepsRagQuestion ==
    /\ chat_history' = <<>>
    /\ rag_question' = rag_question
    /\ question' = <<>>
    /\ answer' = <<>>
    /\ context' = NewList(<<>>)
    /\ heap' = [r \in Refs |-> <<>>]
    /\ previous_queries' = <<>>
    /\ used_queries' = <<>>

\* restart() without the reset of self._context
restart_KeepsContext ==
    /\ chat_history' = <<>>
    /\ rag_question' = <<>>
    /\ question' = <<>>
    /\ answer' = <<>>
    /\ context' = context
    /\ heap' = Collect(heap, <<>>, context)
    /\ previous_queries' = <<>>
    /\ used_queries' = <<>>

\* the query-generation prompt rendered from its fields (the template is the
\* cypher_prompt entry of prompts.yaml)
RenderCypherPrompt(fields) ==
    <<fields.question, fields.previous_queries, fields.used_quries>>

\* generate_cypher_query without the failed queries
generate_cypher_query_NoFailedQueries ==
    RenderCypherPrompt([question |-> rag_question,
                        previous_queries |-> <<>>,
                        used_quries |-> used_queries])

\* chatbot.py 78-86: the user prompt of the query-generation call
generate_cypher_query ==
    RenderCypherPrompt([question |-> rag_question,
                        previous_queries |-> previous_queries,
                        used_quries |-> used_queries])

\* chatbot.py 98-105
restart ==
    /\ chat_history' = <<>>
    /\ rag_question' = <<>>
    /\ question' = <<>>
    /\ answer' = <<>>
    /\ context' = NewList(<<>>)
    /\ heap' = [r \in Refs |-> <<>>]
    /\ previous_queries' = <<>>
    /\ used_queries' = <<>>

IsExit(line) == Lower(line) \in {<<"exit">>, <<"quit">>}
IsRestart(line) == Lower(line) = <<"restart">>

\* chatbot.py 116-121
Exit(line) ==
    /\ pc = "input"
    /\ IsExit(line)
    /\ restart
    /\ NoQuestion
    /\ stdout' = <<>>
    /\ completed' = 0
    /\ dropped' = Len(chat_history) \div 2
    /\ pc' = "exited"
    /\ UNCHANGED <<db_connection, graphDB>>

\* chatbot.py 116-127
Restart(line) ==
    /\ pc = "input"
    /\ ~IsExit(line)
    /\ IsRestart(line)
    /\ restart
    /\ NoQuestion
    /\ stdout' = <<Banner>>
    /\ completed' = 0
    /\ dropped' = Len(chat_history) \div 2
    /\ pc' = "input"
    /\ UNCHANGED <<db_connection, graphDB>>

\* chatbot.py 116-140: a question is read and the retrieval state is reset
Ask(line) ==
    /\ pc = "input"
    /\ ~IsExit(line)
    /\ ~IsRestart(line)
    /\ Len(chat_history) < 2 * MaxExchanges
    /\ question' = line
    /\ context' = NewList(chat_history)
    /\ heap' = Collect(heap, chat_history, NewList(chat_history))
    /\ used_queries' = <<>>
    /\ previous_queries' = <<>>
    /\ NoQuestion
    /\ stdout' = <<>>
    /\ dropped' = IF completed = 0 THEN dropped ELSE -1
    /\ pc' = "answer"
    /\ UNCHANGED <<chat_history, rag_question, answer, completed, db_connection, graphDB>>

\* chatbot.py 143-151 and 187-194: the LLM answers; the loop condition is tested
AnswerCall(a) ==
    /\ pc = "answer"
    /\ answer' = a
    /\ promptHistory' = <<HistoryValue(heap, chat_history)>>
    /\ rounds' = IF HasMarker(a) THEN Min(rounds + 1, MaxCalls) ELSE rounds
    /\ answerCalls' = Min(answerCalls + 1, MaxCalls)
    /\ firstAnswer' = IF answerCalls = 0 THEN a ELSE firstAnswer
    /\ IF NeedsContext(a)
       THEN /\ rag_question' = NextRagQuestion(a)
            /\ pc' = "generate"
            /\ UNCHANGED <<chat_history, stdout, completed>>
       ELSE /\ stdout' = Append(stdout, BotLine(a))
            /\ chat_history' = save_chat_history(chat_history, question, context, a)
            /\ completed' = completed + 1
            /\ pc' = "input"
            /\ UNCHANGED rag_question
    /\ UNCHANGED <<question, context, heap, previous_queries, used_queries,
                   batch, idx, log, roundStart, genCalls, genText, genPrompt, dropped,
                   db_connection, graphDB>>

\* chatbot.py 155-158 applied to each text the generation call may return
ParsedOutputs == [text \in GenOutputs |-> ParseQueryList(text)]

\* chatbot.py 152-161: the LLM generates queries; the text is parsed
GenerateCall(text) ==
    LET parsed == ParsedOutputs[text]
        c == Candidates(parsed)
    IN  /\ pc = "generate"
        /\ AllStrings(parsed)
        /\ Len(log) + Len(c.items) <= MaxQueries
        /\ genCalls' = Min(genCalls + 1, MaxCalls)
        /\ genText' = text
        /\ genPrompt' = <<generate_cypher_query>>
        /\ IF parsed.t = "ValueError" \/ ~c.ok
           THEN /\ pc' = "crashed"
                /\ UNCHANGED <<batch, idx, roundStart>>
           ELSE /\ batch' = c.items
                /\ idx' = 0
                /\ roundStart' = Len(log)
                /\ pc' = IF c.items = <<>> THEN "answer" ELSE "execute"
        /\ UNCHANGED <<chat_history, rag_question, question, answer, context, heap,
                       previous_queries, used_queries, stdout, log, firstAnswer,
                       answerCalls, completed, dropped, db_connection, graphDB,
                       promptHistory, rounds>>

\* chatbot.py 161-178: one iteration of the for loop
ExecuteQuery(res) ==
    LET q == NextCandidate(batch, idx)
        o == QueryOutcome(q, res)
        saved == SaveOutcome(previous_queries, used_queries, heap[context], o)
    IN  /\ pc = "execute"
        /\ idx < Len(batch)
        /\ DbMayAnswer(q, res)
        /\ stdout' = stdout \o o.printed
        /\ previous_queries' = saved.previous
        /\ used_queries' = saved.used
        /\ heap' = [heap EXCEPT ![context] = saved.context]
        /\ log' = Append(log, [q |-> q,
                               out |-> IF res.raised THEN "syntax"
                                       ELSE IF res.rows = <<>> THEN "empty" ELSE "rows",
                               ser |-> IF res.raised THEN <<>> ELSE Serialise(res.rows)])
        /\ idx' = idx + 1
        /\ pc' = AfterCandidate(o, idx, Len(batch))
        /\ UNCHANGED <<chat_history, rag_question, question, answer, context, batch,
                       roundStart, firstAnswer, answerCalls, genCalls, genText,
                       genPrompt, completed, dropped, db_connection, graphDB,
                       promptHistory, rounds>>

AnswerStep == \E a \in Answers : AnswerCall(a)
GenerateStep == \E text \in GenOutputs : GenerateCall(text)
ExecuteStep == \E res \in DbResults : ExecuteQuery(res)

Next ==
    \/ \E line \in UserLines : Exit(line)
    \/ \E line \in UserLines : Restart(line)
    \/ \E line \in UserLines : Ask(line)
    \/ AnswerStep
    \/ GenerateStep
    \/ ExecuteStep

Spec == Init /\ [][Next]_vars

\* every call to the LLM and to the graph store returns
FairSpec == Spec /\ WF_vars(AnswerStep) /\ WF_vars(GenerateStep) /\ WF_vars(ExecuteStep)

----------------------------------------------------------------------------
(* The program from its start: app.py builds the chatbot, then calls chat() *)

\* app.py 30 is about to call the constructor with some db_connection
StartInit ==
    /\ chat_history = <<>>
    /\ rag_question = <<>>
    /\ question = <<>>
    /\ answer = <<>>
    /\ context = 1
    /\ heap = [r \in Refs |-> <<>>]
    /\ previous_queries = <<>>
    /\ used_queries = <<>>
    /\ pc = "new"
    /\ batch = <<>>
    /\ idx = 0
    /\ stdout = <<>>
    /\ log = <<>>
    /\ roundStart = 0
    /\ firstAnswer = <<>>
    /\ answerCalls = 0
    /\ genCalls = 0
    /\ genText = <<>>
    /\ genPrompt = <<>>
    /\ completed = 0
    /\ dropped = -1
    /\ db_connection \in SUBSET RequiredKeys
    /\ graphDB = "none"
    /\ promptHistory = <<>>
    /\ rounds = 0

\* chatbot.py 20-56 and app.py 30-31, chatbot.py 113: the constructor raises
\* KeyError, or opens the graph connection and chat() prints its banner
New ==
    /\ pc = "new"
    /\ IF Cardinality(missing_keys(db_connection)) > 0
       THEN /\ pc' = "KeyError"
            /\ UNCHANGED <<graphDB, stdout>>
       ELSE /\ graphDB' = "open"
            /\ stdout' = <<Banner>>
            /\ pc' = "input"
    /\ UNCHANGED <<chat_history, rag_question, question, answer, context, heap,
                   previous_queries, used_queries, batch, idx, log, roundStart,
                   firstAnswer, answerCalls, genCalls, genText, genPrompt,
                   completed, dropped, db_connection, promptHistory, rounds>>

StartNext == New \/ Next

StartSpec == StartInit /\ [][StartNext]_vars

----------------------------------------------------------------------------
(* Properties *)

\* the executed queries of the current question that returned rows / that failed
Succeeded == SelectSeq(log, LAMBDA e : e.out = "rows")
Failed == SelectSeq(log, LAMBDA e : e.out # "rows")

\* the graph queries the current round has executed
RoundLog == Slice(log, roundStart + 1, Len(log))

\* how often x occurs in the sequence s
Count(s, x) == Cardinality({i \in 1..Len(s) : s[i] = x})

\* C1: when the first LLM answer of a question has no NO_CONTEXT marker, the
\* question is over at once: no generation call was made, no graph query was
\* executed, and the answer printed and committed to the history is that first
\* answer.
C1_FirstAnswerWithoutMarkerIsFinal ==
    (answerCalls >= 1 /\ ~HasMarker(firstAnswer)) =>
        /\ pc = "input"
        /\ genCalls = 0
        /\ log = <<>>
        /\ answerCalls = 1
        /\ stdout = <<BotLine(firstAnswer)>>
        /\ Len(chat_history) >= 2
        /\ chat_history[Len(chat_history)] = [role |-> "assistant", content |-> firstAnswer]
        /\ chat_history[Len(chat_history) - 1].content = question

C1_Witness ==
    /\ answerCalls = 1
    /\ ~HasMarker(firstAnswer)
    /\ pc = "input"
    /\ Len(chat_history) = 4

\* C2: every accepted question eventually leaves the retrieval loop, whatever
\* the LLM answers: it reaches Done (or chat() has ended on an exception).
C2_RetrievalLoopEnds == (pc = "answer") ~> (pc \in {"input", "crashed"})

\* C3: the context list and used_queries always have the same length, and the
\* i-th context entry is the serialized result of the i-th succeeded query.
C3_ContextPairsWithUsedQueries ==
    /\ Len(heap[context]) = Len(used_queries)
    /\ Len(used_queries) = Len(Succeeded)
    /\ \A i \in 1..Len(used_queries) :
           /\ used_queries[i] = Succeeded[i].q
           /\ heap[context][i] = Succeeded[i].ser

C3_Witness ==
    /\ Len(used_queries) = 2
    /\ Len(chat_history) >= 2
    /\ pc = "answer"

\* C4: every entry of previous_queries is an executed query under exactly one
\* of the two prefixes: the invalid-syntax prefix exactly when its execution
\* raised the syntax error, the no-data prefix exactly when it returned nothing.
C4_FailedQueriesAnnotatedOnce ==
    /\ Len(previous_queries) = Len(Failed)
    /\ \A i \in 1..Len(previous_queries) :
           /\ StartsWith(previous_queries[i], InvalidPrefix)
                  # StartsWith(previous_queries[i], NoDataPrefix)
           /\ StartsWith(previous_queries[i], InvalidPrefix) <=> Failed[i].out = "syntax"
           /\ StartsWith(previous_queries[i], NoDataPrefix) <=> Failed[i].out = "empty"
           /\ previous_queries[i] \in {InvalidPrefix \o Failed[i].q, NoDataPrefix \o Failed[i].q}

C4_Witness ==
    /\ \E i \in 1..Len(previous_queries) : StartsWith(previous_queries[i], InvalidPrefix)
    /\ \E i \in 1..Len(previous_queries) : StartsWith(previous_queries[i], NoDataPrefix)
    /\ \E i \in 1..Len(log) : StartsWith(log[i].q, NoDataPrefix)

\* the step executes a graph query whose outcome is o
Executes(o) ==
    /\ pc = "execute"
    /\ Len(log') = Len(log) + 1
    /\ log'[Len(log')].out = o

\* C5: a candidate whose execution raises the syntax error adds exactly the
\* entry "Invalid syntax of this query: <query>" to previous_queries, leaves the
\* context and used_queries alone, and the question goes on.
C5_SyntaxErrorIsRecordedAndSurvived ==
    [][Executes("syntax") =>
          /\ previous_queries' = Append(previous_queries, InvalidPrefix \o batch[idx + 1])
          /\ heap' = heap
          /\ context' = context
          /\ used_queries' = used_queries
          /\ pc' \in {"execute", "answer"}
          /\ question' = question
          /\ chat_history' = chat_history]_vars

C5_Witness ==
    /\ log # <<>>
    /\ log[Len(log)].out = "syntax"
    /\ Len(previous_queries) = 2
    /\ pc = "answer"

\* C6: a candidate that executes without error and returns the empty result
\* "[]" is never a success: it adds exactly the entry "No data generated for
\* this query: <query>" to previous_queries and leaves the context and
\* used_queries alone.
C6_EmptyResultIsAFailure ==
    [][Executes("empty") =>
          /\ log'[Len(log')].ser = <<"[", "]">>
          /\ previous_queries' = Append(previous_queries, NoDataPrefix \o batch[idx + 1])
          /\ heap' = heap
          /\ context' = context
          /\ used_queries' = used_queries]_vars

C6_Witness ==
    /\ log # <<>>
    /\ log[Len(log)].out = "empty"
    /\ Len(used_queries) = 1

\* C7: a candidate that returns rows adds the raw query to used_queries and the
\* serialized rows to the context and leaves previous_queries alone; every
\* executed query is in exactly one of the two lists, whose lengths add up to
\* the number of queries executed for the question.
C7_SuccessIsRecordedOnce ==
    /\ [](Len(previous_queries) + Len(used_queries) = Len(log))
    /\ [][Executes("rows") =>
             /\ used_queries' = Append(used_queries, batch[idx + 1])
             /\ heap' = [heap EXCEPT ![context] = Append(@, log'[Len(log')].ser)]
             /\ context' = context
             /\ previous_queries' = previous_queries]_vars
    /\ [][pc = "execute" /\ log' # log =>
             Len(previous_queries') + Len(used_queries')
                 = Len(previous_queries) + Len(used_queries) + 1]_vars

C7_Witness ==
    /\ log # <<>>
    /\ log[Len(log)].out = "rows"
    /\ Len(previous_queries) = 1
    /\ Len(used_queries) = 1

\* C8: when a round is over, every candidate of its list has been submitted to
\* the graph store exactly once, whatever the outcomes of the candidates; while
\* it runs, exactly the candidates taken so far have been submitted.
C8_WholeBatchIsSubmitted ==
    genCalls >= 1 =>
        /\ pc = "execute" => idx < Len(batch) /\ Len(RoundLog) = idx
        /\ pc # "execute" =>
               /\ Len(RoundLog) = Len(batch)
               /\ \A i \in 1..Len(batch) :
                      Count([j \in 1..Len(RoundLog) |-> RoundLog[j].q], batch[i])
                          = Count(batch, batch[i])

C8_Witness ==
    /\ pc = "answer"
    /\ Len(batch) = 2
    /\ batch[1] # batch[2]
    /\ Len(RoundLog) = 2
    /\ RoundLog[1].out # "rows"

\* C9: the candidates are executed in the order of the generated list, and
\* each execution appends at the end of the list it is recorded in, so the
\* entries of a round keep the candidates' order and follow the entries of
\* earlier rounds.
C9_ListOrderIsKept ==
    [][pc = "execute" /\ log' # log =>
          /\ idx' = idx + 1
          /\ log' = Append(log, log'[Len(log')])
          /\ log'[Len(log')].q = batch[idx + 1]
          /\ \/ /\ \E e \in {InvalidPrefix \o batch[idx + 1], NoDataPrefix \o batch[idx + 1]} :
                       previous_queries' = Append(previous_queries, e)
                /\ UNCHANGED <<used_queries, heap>>
             \/ /\ used_queries' = Append(used_queries, batch[idx + 1])
                /\ heap' = [heap EXCEPT ![context] = Append(@, log'[Len(log')].ser)]
                /\ UNCHANGED previous_queries]_vars

C9_Witness ==
    /\ Len(batch) = 2
    /\ batch[1] # batch[2]
    /\ idx = 2
    /\ Len(previous_queries) = 2

C9_WitnessLaterRound ==
    /\ roundStart = 1
    /\ Len(log) = 2
    /\ Len(used_queries) = 2

\* C10: the parse of the generation output never fails and, when the output is
\* not a list literal, gives the one-element list holding the whole output; a
\* malformed output never ends chat().
C10_ParserIsTotal ==
    genCalls >= 1 =>
        /\ pc # "crashed"
        /\ literal_eval(genText).t # "list" => batch = <<genText>>

\* the generation output is a bare query text: a keyword followed by more text
IsBareQuery(text) ==
    LET t == Tokens(text, 1)
    IN  Len(t) >= 2 /\ t[1].k = "name"

\* C11: when the generation output is a bare query text, not a list, the
\* candidate list of the round is the one-element list holding the whole
\* output, and exactly one graph query is executed in the round.
C11_BareQueryIsOneCandidate ==
    (genCalls >= 1 /\ IsBareQuery(genText)) =>
        /\ pc # "crashed"
        /\ batch = <<genText>>
        /\ pc # "execute" => Len(RoundLog) = 1

\* C12: after restart() and one completed question the history holds exactly
\* one exchange, the user Turn and the assistant Turn of that question,
\* however many exchanges the restart removed.
C12_OneExchangeAfterRestart ==
    (dropped >= 0 /\ completed = 1) =>
        /\ Len(chat_history) = 2
        /\ chat_history[1] = [role |-> "user", content |-> question, context |-> context]
        /\ chat_history[2] = [role |-> "assistant", content |-> answer]

C12_Witness ==
    /\ dropped = 2
    /\ completed = 1
    /\ pc = "input"

\* the history and every field restart() resets are empty
AllCleared ==
    /\ chat_history = <<>>
    /\ question = <<>>
    /\ rag_question = <<>>
    /\ answer = <<>>
    /\ heap[context] = <<>>
    /\ previous_queries = <<>>
    /\ used_queries = <<>>

\* the step is a call of restart(): the line read is restart, exit or quit
RestartStep == pc = "input" /\ pc' # "answer"

\* C13: restart() leaves the history, question, rag_question, answer, context,
\* failed and succeeded queries empty from every state it is called in; its
\* result does not depend on the state before, so a second restart() changes
\* nothing.
C13_RestartClearsEverything ==
    [][RestartStep =>
          /\ AllCleared'
          /\ AllCleared =>
                 <<chat_history, question, rag_question, answer, heap[context],
                   previous_queries, used_queries>>'
                     = <<chat_history, question, rag_question, answer, heap[context],
                         previous_queries, used_queries>>]_vars

C13_Witness ==
    /\ dropped >= 1
    /\ AllCleared
    /\ pc = "input"

\* C14: the step that reads a new question leaves the context, the failed
\* queries, the succeeded queries and rag_question empty.
C14_NewQuestionResetsRetrievalState ==
    [][(pc = "input" /\ pc' = "answer") =>
          /\ heap'[context'] = <<>>
          /\ previous_queries' = <<>>
          /\ used_queries' = <<>>
          /\ rag_question' = <<>>]_vars

\* C15: a Turn of the history keeps its role, its content and the entries of
\* its context list in every step that is not a restart(), also while a later
\* question appends to the live context.
C15_TurnsAreImmutable ==
    [][~RestartStep =>
          \A i \in 1..Len(chat_history) :
              /\ i <= Len(chat_history')
              /\ chat_history'[i].role = chat_history[i].role
              /\ chat_history'[i].content = chat_history[i].content
              /\ chat_history[i].role = "user" =>
                     heap'[chat_history'[i].context] = heap[chat_history[i].context]]_vars

C15_Witness ==
    /\ Len(chat_history) >= 2
    /\ Len(heap[chat_history[1].context]) = 1
    /\ context # chat_history[1].context
    /\ Len(heap[context]) = 2

\* C16: the history holds one Turn pair per question completed since the last
\* restart, the user Turn before the assistant Turn; the pair of the question
\* just completed holds the question, the context list as it stands and the
\* final answer.
C16_OneTurnPairPerQuestion ==
    /\ Len(chat_history) = 2 * completed
    /\ \A k \in 1..completed :
           /\ chat_history[2 * k - 1].role = "user"
           /\ chat_history[2 * k].role = "assistant"
    /\ (pc = "input" /\ completed >= 1) =>
           /\ chat_history[Len(chat_history) - 1]
                  = [role |-> "user", content |-> question, context |-> context]
           /\ chat_history[Len(chat_history)] = [role |-> "assistant", content |-> answer]

C16_Witness ==
    /\ completed = 2
    /\ pc = "input"
    /\ heap[context] # <<>>

\* C17: an answer that is printed or stored in an assistant Turn holds no
\* NO_CONTEXT marker and, when the question ends, is the latest LLM answer;
\* while a retrieval round runs, the latest answer holds the marker.
C17_FinalAnswerHasNoMarker ==
    /\ \A i \in 1..Len(chat_history) :
           chat_history[i].role = "assistant" => ~HasMarker(chat_history[i].content)
    /\ \A j \in 1..Len(stdout) :
           StartsWith(stdout[j], <<"Bot: ">>) => ~HasMarker(stdout[j])
    /\ (pc = "input" /\ completed >= 1) =>
           /\ ~HasMarker(answer)
           /\ chat_history[Len(chat_history)].content = answer
           /\ stdout # <<>>
           /\ stdout[Len(stdout)] = BotLine(answer)
    /\ pc \in {"generate", "execute"} => HasMarker(answer)

C17_Witness ==
    /\ pc = "input"
    /\ completed >= 1
    /\ genCalls >= 1
    /\ log # <<>>

\* C18: within one round no query string is submitted again after it has
\* failed.
C18_FailedQueryNotResubmitted ==
    \A i, j \in 1..Len(RoundLog) :
        (i < j /\ RoundLog[i].out # "rows") => RoundLog[j].q # RoundLog[i].q

\* s is an initial part of t
IsPrefix(s, t) == Len(s) <= Len(t) /\ Slice(t, 1, Len(s)) = s

\* C19: every generation request is rendered from the current rag_question
\* and all failed and succeeded queries recorded so far for the question; the
\* two lists only grow while the question is resolved; a request that follows
\* a round in which a query failed differs from the request before it.
C19_GenerationRequestCarriesFailures ==
    /\ [][pc = "generate" =>
             /\ genPrompt' = <<RenderCypherPrompt([question |-> rag_question,
                                                   previous_queries |-> previous_queries,
                                                   used_quries |-> used_queries])>>
             /\ (genPrompt # <<>> /\ \E i \in 1..Len(RoundLog) : RoundLog[i].out # "rows")
                    => genPrompt'[1] # genPrompt[1]]_vars
    /\ [][(pc # "input" /\ pc # "exited" /\ pc # "crashed") =>
             /\ IsPrefix(previous_queries, previous_queries')
             /\ IsPrefix(used_queries, used_queries')]_vars

C19_Witness ==
    /\ genCalls = 2
    /\ pc = "execute"
    /\ genPrompt # <<>>
    /\ Len(previous_queries) = 1
    /\ log[1].out # "rows"

\* C20: no string is an entry of previous_queries and of used_queries at once.
C20_FailedAndUsedAreDisjoint ==
    \A i \in 1..Len(previous_queries) :
        \A j \in 1..Len(used_queries) : previous_queries[i] # used_queries[j]

C20_Witness ==
    /\ Len(log) = 2
    /\ roundStart = 0
    /\ log[1].q = log[2].q
    /\ Len(previous_queries) = 1
    /\ Len(used_queries) = 1

\* the lines printed for n queries the graph store rejected as invalid
Notices(n) == [i \in 1..n |-> SyntaxNotice]

\* the executed queries of the current question that raised the syntax error
Invalid == SelectSeq(log, LAMBDA e : e.out = "syntax")

\* C21: all that query failures make chat() print is the one generic notice
\* per query that raised the syntax error: while a question is resolved the
\* output is these notices and nothing else, an empty result prints nothing,
\* neither the query text nor an error text is printed, and after a failed
\* query chat() goes on with the for loop and then with the next answer call;
\* once the question is answered the output is the notices and the Bot line.
C21_OnlyNoticeForInvalidQueries ==
    [][/\ (pc' = "answer" \/ pc' = "generate" \/ pc' = "execute")
              => stdout' = Notices(Len(Invalid'))
       /\ (pc' = "input" /\ answerCalls' >= 1)
              => stdout' = Notices(Len(Invalid')) \o <<BotLine(answer')>>
       /\ (Len(log') = Len(log) + 1 /\ log'[Len(log')].out # "rows")
              => /\ stdout' = stdout \o Notices(IF log'[Len(log')].out = "syntax"
                                               THEN 1 ELSE 0)
                 /\ pc' = (IF idx' < Len(batch') THEN "execute" ELSE "answer")]_vars

C21_Witness ==
    /\ pc = "input"
    /\ answerCalls >= 1
    /\ Len(log) = 2
    /\ log[1].out = "syntax"
    /\ log[2].out = "empty"
    /\ stdout = <<SyntaxNotice, BotLine(answer)>>

\* C22: a db_connection that lacks one of the keys url, username, password,
\* database makes the constructor raise KeyError: no graph connection is ever
\* opened and chat() is never entered (no banner is printed, no line is read).
C22_MissingKeyStopsBeforeChat ==
    db_connection # RequiredKeys =>
        /\ graphDB = "none"
        /\ pc \in {"new", "KeyError"}
        /\ stdout = <<>>
        /\ chat_history = <<>>

C22_Witness ==
    /\ pc = "KeyError"
    /\ db_connection = RequiredKeys \ {"database"}
    /\ graphDB = "none"

\* a step made while a question is being resolved that does not end it
RoundStep ==
    /\ (pc = "answer" \/ pc = "generate" \/ pc = "execute")
    /\ pc' # "input"

\* C23: while a question is being resolved the history does not change: no
\* step of a round appends a Turn, removes one, or alters the content or the
\* context of a stored Turn; every answer prompt of the question is given the
\* same history as the one before it; the history changes only at the answer
\* without the marker, by the two Turns of the question appended to it.
C23_HistoryFrozenWhileResolving ==
    [][/\ RoundStep =>
              /\ chat_history' = chat_history
              /\ HistoryValue(heap', chat_history') = HistoryValue(heap, chat_history)
       /\ (pc = "answer" /\ promptHistory # <<>>) => promptHistory' = promptHistory
       /\ ((pc = "answer" \/ pc = "generate" \/ pc = "execute") /\ pc' = "input") =>
              /\ pc = "answer"
              /\ ~HasMarker(answer')
              /\ Len(chat_history') = Len(chat_history) + 2
              /\ SubSeq(HistoryValue(heap', chat_history'), 1, Len(chat_history))
                     = HistoryValue(heap, chat_history)
              /\ chat_history'[Len(chat_history) + 1].content = question
              /\ chat_history'[Len(chat_history) + 2].content = answer']_vars

\* a second question, asked with a history of one exchange, is in its second
\* round after a query that returned rows
C23_Witness ==
    /\ Len(chat_history) = 2
    /\ pc = "answer"
    /\ promptHistory # <<>>
    /\ Len(promptHistory[1]) = 2
    /\ Len(used_queries) >= 1

\* C24: the calls of one question follow  answer (generate, batch, answer)*:
\* chat() comes to a generation call only from an answer call whose answer
\* holds the marker; a graph query is executed only after a generation call
\* and before the next answer call; when the batch is over the next call is
\* an answer call.  While the counters are exact (fewer than MaxCalls rounds
\* begun): a question that is over after k rounds has made k + 1 answer calls
\* and k generation calls, and within a round the generation call is the
\* k-th after k answer calls.
C24_CallProtocol ==
    [][/\ (pc' = "generate" /\ pc # "generate")
              => (pc = "answer" /\ HasMarker(answer') /\ rounds' # 0)
       /\ (pc' = "execute" /\ pc # "execute") => pc = "generate"
       /\ log' # log => (pc = "execute" \/ log' = <<>>)
       /\ pc = "execute" => (pc' = "execute" \/ pc' = "answer")
       /\ pc = "generate" => (pc' = "generate" \/ pc' = "execute" \/ pc' = "answer"
                                 \/ pc' = "crashed")
       /\ rounds' < MaxCalls =>
              /\ pc' = "generate" => (answerCalls' = rounds' /\ genCalls' = rounds' - 1)
              /\ (pc' = "execute" \/ pc' = "answer" \/ pc' = "crashed")
                     => (answerCalls' = rounds' /\ genCalls' = rounds')
              /\ (pc' = "input" /\ answerCalls' >= 1)
                     => (answerCalls' = rounds' + 1 /\ genCalls' = rounds')]_vars

\* the single-marker scenario: one round, two answer calls, one generation call
C24_Witness ==
    /\ pc = "input"
    /\ rounds = 1
    /\ answerCalls = 2
    /\ genCalls = 1
    /\ Len(log) >= 1
    /\ HasMarker(firstAnswer)
    /\ ~HasMarker(answer)

\* r is the text of a after its last marker, without the whitespace at its
\* two ends
IsTrimmedTextAfterLastMarker(r, a) ==
    \E i \in 1..Len(a) :
        /\ a[i] = NO_CONTEXT
        /\ \A j \in (i + 1)..Len(a) : a[j] # NO_CONTEXT
        /\ \E lo \in (i + 1)..(Len(a) + 1) :
               /\ lo + Len(r) - 1 <= Len(a)
               /\ \A k \in 1..Len(r) : r[k] = a[lo + k - 1]
               /\ \A j \in (i + 1)..(lo - 1) : a[j] \in Whitespace
               /\ \A j \in (lo + Len(r))..Len(a) : a[j] \in Whitespace
        /\ r # <<>> => (r[1] \notin Whitespace /\ r[Len(r)] \notin Whitespace)

\* C25: in a retrieval round rag_question is the text that follows the last
\* marker of the answer that began the round, with the whitespace at its ends
\* removed; whatever rag_question held in an earlier round is replaced.
C25_RagQuestionFollowsLastMarker ==
    (pc = "generate" \/ pc = "execute" \/ pc = "crashed") =>
        /\ HasMarker(answer)
        /\ IsTrimmedTextAfterLastMarker(rag_question, answer)

\* the second round of a question: the first answer asked for w, the answer
\* that began this round holds two markers and asks for v
C25_Witness ==
    /\ pc = "generate"
    /\ rounds = 2
    /\ NextRagQuestion(firstAnswer) = <<"w">>
    /\ Count(answer, NO_CONTEXT) = 2
    /\ rag_question = <<"v">>

====
